---------------------------- MODULE Spec2Model ----------------------------
(***************************************************************************)
(* Micro-website generator (lyce543/Website-Generator).                    *)
(*                                                                         *)
(* The model follows the Python sources:                                   *)
(*   app/generator.py  WebsiteGenerator (construction, generate_multiple,  *)
(*                     _generate_single, _generate_content,                *)
(*                     _generate_sections, _render_html)                   *)
(*   app/prompts.py    PromptManager (section catalogs, sampling, prompt    *)
(*                     strings)                                            *)
(*   app/models.py     GenerateRequest, WebsiteMetadata                    *)
(*   app/database.py   Database (log_generation, get_logs, get_stats,      *)
(*                     get_site_metadata)                                  *)
(*   main.py           module import, lifespan, POST /generate, GET /site  *)
(*   generate.py       the command line entry point                        *)
(*                                                                         *)
(* Spec and SpecConc run requests through the server and the command line; *)
(* SpecDb, SpecPrompts and SpecGenerator call Database, PromptManager and  *)
(* WebsiteGenerator methods directly.                                      *)
(*                                                                         *)
(* A model answer is a sequence of tokens (" " and "\n" are whitespace); a *)
(* prompt is a string.  Temperatures and top_p values are in hundredths.   *)
(* The clock counts whole seconds.                                         *)
(***************************************************************************)
EXTENDS Integers, Sequences, FiniteSets, TLC

(***************************************************************************)
(* Bounds of the exploration.                                              *)
(***************************************************************************)
\* request slots: the requests (HTTP or command line) that ever arrive
MaxBatches == 2
\* sites asked for by all accepted requests together
MaxSites == 2
\* largest in-range page count a request carries
MaxCount == 2
\* model calls made by all batches together
MaxCalls == 10
\* times the hosted model goes from reachable to unreachable
MaxOutages == 1
\* site-file writes that fail
MaxWriteFaults == 1
\* offsets explored for random.sample's draw from a catalog
MaxSampleStart == 0
\* colour schemes explored for random.choice(schemes)
MaxSchemeDraw == 1
\* template styles explored for random.choice(template_styles)
MaxTemplateDraw == 2
\* title and meta templates explored for random.choice in a batch
MaxVariationDraw == 1

\* rows logged by direct calls of Database.log_generation
MaxRows == 7
\* seconds the database clock advances
MaxClock == 1
\* rows in the table when get_logs is explored
MaxListed == 3
\* greatest index passed to get_title_prompt directly
MaxIndex == 9
\* sections passed to _render_html directly
MaxRenderSections == 2
\* template files that are changed or removed from outside the program
MaxChangedTemplates == 2

(***************************************************************************)
(* Program constants.                                                      *)
(***************************************************************************)
MinPagesCount == 1
MaxPagesCount == 50
MinMaxTokens == 100
MaxMaxTokens == 2000
DefaultTokens == 800
MinSections == 3
MaxSections == 5
TempLow == 80
TempHigh == 100
TopPLow == 85
TopPHigh == 98
InitTemperature == 90
InitTopP == 95
TopTopics == 5

Batches == 1..MaxBatches
Uuids == 1..MaxSites
TemplateStyles == <<"modern", "minimal", "classic", "magazine">>

TitleFallback == <<"Generated", " ", "content">>
SectionFallback == <<"Content", " ", "generation", " ", "in", " ", "progress...">>

Whitespace == {" ", "\n", "\t"}


(***************************************************************************)
(* PromptManager: the heading/type catalogs and the section prompts.       *)
(***************************************************************************)
Sec(h, t) == [heading |-> h, type |-> t]

SectionTypes ==
  [educational |->
     << Sec("Introduction", "intro"),
        Sec("Understanding the Fundamentals", "fundamentals"),
        Sec("Key Concepts Explained", "concepts"),
        Sec("Real-World Applications", "applications"),
        Sec("Common Challenges and Solutions", "challenges"),
        Sec("Best Practices", "best_practices"),
        Sec("Future Outlook", "future"),
        Sec("Getting Started", "getting_started"),
        Sec("Resources and Tools", "resources"),
        Sec("Conclusion", "conclusion") >>,
   marketing |->
     << Sec("Why This Matters", "value_prop"),
        Sec("Transform Your Business", "transformation"),
        Sec("Proven Benefits", "benefits"),
        Sec("Success Stories", "testimonials"),
        Sec("How It Works", "process"),
        Sec("Get Started Today", "cta"),
        Sec("Industry Leadership", "authority"),
        Sec("What Sets Us Apart", "differentiation"),
        Sec("ROI and Value", "roi"),
        Sec("Join Thousands of Satisfied Users", "social_proof") >>,
   technical |->
     << Sec("Technical Overview", "overview"),
        Sec("Architecture and Design", "architecture"),
        Sec("Implementation Details", "implementation"),
        Sec("API and Integration", "api"),
        Sec("Performance Considerations", "performance"),
        Sec("Security Features", "security"),
        Sec("Scalability", "scalability"),
        Sec("Code Examples", "examples"),
        Sec("Troubleshooting", "troubleshooting"),
        Sec("Advanced Topics", "advanced") >>]

\* style_key = style if style in self.section_types else "educational"
StyleKeyFixed(style) == "educational"
StyleKey(style) == IF style \in DOMAIN SectionTypes THEN style ELSE "educational"

Min(a, b) == IF a < b THEN a ELSE b
Max(a, b) == IF a > b THEN a ELSE b

\* random.sample(available, k): k distinct entries in drawn order.  The draws
\* explored walk the catalog from a start offset with a stride coprime to its
\* length, so the entries are distinct and their order is not the catalog's.
SamplesShort(available, k, starts) ==
  { [j \in 1..(k - 1) |-> available[((s + (j - 1) * 7) % Len(available)) + 1]] :
      s \in starts }
Samples(available, k, starts) ==
  { [j \in 1..k |-> available[((s + (j - 1) * 7) % Len(available)) + 1]] :
      s \in starts }

\* word_count = int(max_tokens * 0.75): int() truncates towards zero
WordCount(max_tokens) ==
  IF max_tokens >= 0 THEN (max_tokens * 75) \div 100 ELSE -((-max_tokens * 75) \div 100)

\* A prompt is kept as the values its string is built from (PromptText builds
\* the string): the template picked, topic, style, and for a title the focus
\* suffix, for a section its type, heading and word count.
SectionPrompt(topic, section, style, max_tokens) ==
  [kind |-> "section", topic |-> topic, style |-> style, about |-> section.type,
   words |-> WordCount(max_tokens), variation |-> 0, heading |-> section.heading]

\* get_section_prompts with random.sample starting at one of `starts`
GetSectionPromptsOver(topic, style, max_tokens, starts) ==
  LET available == SectionTypes[StyleKey(style)]
  IN  UNION { { [j \in 1..Len(sel) |->
                   [heading |-> sel[j].heading,
                    prompt  |-> SectionPrompt(topic, sel[j], style, max_tokens)]] :
                sel \in Samples(available, Min(n, Len(available)), starts) } :
              n \in MinSections..MaxSections }

\* get_section_prompts: every list of {heading, prompt} the call may return
\* (for the samples explored)
GetSectionPrompts(topic, style, max_tokens) ==
  GetSectionPromptsOver(topic, style, max_tokens, 0..MaxSampleStart)

\* self.title_variations, formatted with topic and style
TitleVariations(topic, style) ==
  << "Create a compelling title about " \o topic \o ". Style: " \o style
       \o ". Be unique and engaging.",
     "Generate an innovative title for " \o topic \o ". Use " \o style
       \o " tone. Be creative.",
     "Craft a distinctive title covering " \o topic \o ". " \o style
       \o " approach. Make it memorable.",
     "Design a captivating title for " \o topic \o ". Apply " \o style
       \o " style. Stand out.",
     "Produce an original title focused on " \o topic \o ". " \o style
       \o " perspective. Avoid clichés." >>

\* self.meta_variations, formatted with topic and style
MetaVariations(topic, style) ==
  << "Write a meta description (150-160 chars) for a " \o style \o " website about "
       \o topic \o ".",
     "Create an SEO-optimized meta description about " \o topic \o ". Style: " \o style
       \o ". Under 160 characters.",
     "Generate a unique meta description for " \o topic \o ". Use " \o style
       \o " tone. 150-160 characters.",
     "Craft an engaging meta description covering " \o topic \o ". " \o style
       \o " style. Optimize for search." >>

VariationSuffix ==
  << " Focus on innovation.", " Emphasize practical aspects.",
     " Highlight cutting-edge developments.", " Stress accessibility and clarity.",
     " Showcase real-world impact.", " Emphasize technical depth.",
     " Focus on business value.", " Highlight emerging trends." >>

\* variation_suffix[index % len(variation_suffix)]
SuffixOfHalf(index) == VariationSuffix[(index % 4) + 1]
SuffixOf(index) == VariationSuffix[(index % Len(VariationSuffix)) + 1]

\* get_title_prompt when random.choice picks the variation-th base template
TitlePrompt(topic, style, index, variation) ==
  [kind |-> "title", topic |-> topic, style |-> style, about |-> SuffixOf(index),
   words |-> 0, variation |-> variation, heading |-> ""]

\* get_title_prompt: the prompts the call may return (for the base templates
\* explored)
GetTitlePrompt(topic, style, index) ==
  { TitlePrompt(topic, style, index, v) :
      v \in 1..Min(MaxVariationDraw, Len(TitleVariations(topic, style))) }

\* get_meta_prompt when random.choice picks the variation-th template
MetaPrompt(topic, style, variation) ==
  [kind |-> "meta", topic |-> topic, style |-> style, about |-> "meta", words |-> 0,
   variation |-> variation, heading |-> ""]

\* get_meta_prompt: the prompts the call may return (for the templates explored)
GetMetaPrompt(topic, style) ==
  { MetaPrompt(topic, style, v) :
      v \in 1..Min(MaxVariationDraw, Len(MetaVariations(topic, style))) }

NoPrompt == [kind |-> "none", topic |-> "", style |-> "", about |-> "", words |-> 0,
             variation |-> 0, heading |-> ""]

\* _create_section_prompt: base_prompts.get(section_type, default).format(...)
SectionText(section_type, topic, heading, style, tokens) ==
  LET tail == " Style: " \o style \o ". Length: " \o tokens \o " words."
  IN  CASE section_type = "intro" ->
             "Write an engaging introduction about " \o topic \o ". Set context." \o tail
        [] section_type = "fundamentals" ->
             "Explain fundamental concepts of " \o topic \o ". Clear and accessible." \o tail
        [] section_type = "applications" ->
             "Describe real-world applications of " \o topic \o ". Specific examples." \o tail
        [] section_type = "challenges" ->
             "Discuss challenges and solutions for " \o topic \o ". Be practical." \o tail
        [] section_type = "future" ->
             "Explore future trends in " \o topic \o ". Be forward-thinking." \o tail
        [] section_type = "value_prop" ->
             "Explain why " \o topic \o " matters. Be persuasive." \o tail
        [] section_type = "benefits" ->
             "List key benefits of " \o topic \o ". Focus on outcomes." \o tail
        [] section_type = "process" ->
             "Describe how " \o topic \o " works. Be methodical." \o tail
        [] section_type = "technical" ->
             "Provide technical details about " \o topic \o ". Be specific." \o tail
        [] section_type = "architecture" ->
             "Explain architecture of " \o topic \o ". Be detailed." \o tail
        [] OTHER ->
             "Write comprehensive content about " \o topic \o " for '" \o heading \o "'."
               \o tail

\* the prompt string handed to the model
PromptText(prompt) ==
  CASE prompt.kind = "title" ->
         TitleVariations(prompt.topic, prompt.style)[prompt.variation] \o prompt.about
    [] prompt.kind = "meta" -> MetaVariations(prompt.topic, prompt.style)[prompt.variation]
    [] prompt.kind = "section" ->
         SectionText(prompt.about, prompt.topic, prompt.heading, prompt.style,
                     ToString(prompt.words))
    [] OTHER -> ""

(***************************************************************************)
(* Texts.                                                                  *)
(***************************************************************************)
RECURSIVE LStrip(_)
LStrip(s) == IF s # <<>> /\ Head(s) \in Whitespace THEN LStrip(Tail(s)) ELSE s

RECURSIVE RStrip(_)
RStrip(s) ==
  IF s # <<>> /\ s[Len(s)] \in Whitespace THEN RStrip(SubSeq(s, 1, Len(s) - 1)) ELSE s

\* str.strip()
Strip(s) == RStrip(LStrip(s))

\* The text the hosted model answers a prompt with, padded with whitespace
\* as model output is.
ModelReply(prompt) == <<"\n", " ", prompt.kind, " ", prompt.about, " ", "\n">>


(***************************************************************************)
(* WebsiteGenerator: palette, rendering, construction.                     *)
(***************************************************************************)
Scheme(p, s2, a) == [primary |-> p, secondary |-> s2, accent |-> a]

SchemesFew ==
  << Scheme("#667eea", "#764ba2", "#f093fb"), Scheme("#667eea", "#f5576c", "#4facfe") >>
Schemes ==
  << Scheme("#667eea", "#764ba2", "#f093fb"), Scheme("#f093fb", "#f5576c", "#4facfe"),
     Scheme("#43e97b", "#38f9d7", "#667eea"), Scheme("#fa709a", "#fee140", "#30cfd0"),
     Scheme("#a8edea", "#fed6e3", "#667eea"), Scheme("#ff9a9e", "#fecfef", "#667eea"),
     Scheme("#ffecd2", "#fcb69f", "#ff6e7f"), Scheme("#e0c3fc", "#8ec5fc", "#667eea"),
     Scheme("#09203f", "#537895", "#ffd700"), Scheme("#ee0979", "#ff6a00", "#00f2fe"),
     Scheme("#0f2027", "#203a43", "#2c5364"), Scheme("#360033", "#0b8793", "#ff512f") >>

\* _get_random_colors: random.choice(schemes), the draws explored
GetRandomColors == { Schemes[n] : n \in 1..Min(MaxSchemeDraw, Len(Schemes)) }

\* _render_html: the page, held as the template's name and the values the
\* template is rendered with (HtmlText gives the texts of the page in order)
RenderHtml(site_id, title, meta_description, sections, color_scheme, template_name) ==
  [template |-> template_name, site_id |-> site_id, title |-> title,
   meta_description |-> meta_description, sections |-> sections,
   color_scheme |-> color_scheme]

\* A file opened for writing whose write did not happen
EmptyHtml ==
  [template |-> "", site_id |-> 0, title |-> <<>>, meta_description |-> <<>>,
   sections |-> <<>>, color_scheme |-> Scheme("", "", "")]

\* The four templates as _get_*_template returns them.  `head` lists the text
\* placeholders before the section loops in page order, `loops` the
\* placeholders of each {% for section in sections %} body in page order;
\* `words` is len(split()) of the page rendered with no section and
\* `section_words` what each section adds, every text placeholder holding one
\* word (each of them touches a tag on both sides) and the timestamp its two.
TemplateLayout ==
  [modern |->
     [head |-> <<"meta_description", "title", "title", "meta_description">>,
      loops |-> << <<"heading", "content">> >>,
      words |-> 187, section_words |-> 5],
   minimal |->
     [head |-> <<"meta_description", "title", "title", "meta_description">>,
      loops |-> << <<"heading">>, <<"heading", "content">> >>,
      words |-> 183, section_words |-> 7],
   classic |->
     [head |-> <<"meta_description", "title", "title", "meta_description">>,
      loops |-> << <<"heading", "content">> >>,
      words |-> 170, section_words |-> 4],
   magazine |->
     [head |-> <<"meta_description", "title", "title", "meta_description">>,
      loops |-> << <<"heading", "content">> >>,
      words |-> 257, section_words |-> 9]]

\* Environment(loader=FileSystemLoader(...)): autoescape is left at its
\* default, off
Autoescape == FALSE

\* markupsafe.escape, token by token
EscapeToken(token) ==
  CASE token = "&" -> "&amp;"
    [] token = "<" -> "&lt;"
    [] token = ">" -> "&gt;"
    [] OTHER -> token

\* {{ value }}: the value's text, escaped when autoescape is on
EmitEscaped(value) == [k \in 1..Len(value) |-> EscapeToken(value[k])]
Emit(value) == IF Autoescape THEN [k \in 1..Len(value) |-> EscapeToken(value[k])] ELSE value

\* what a placeholder of the page or of a loop body is replaced with
Piece(slot, text) == [slot |-> slot, text |-> Emit(text)]

SectionPiece(slot, section) ==
  Piece(slot, IF slot = "heading" THEN <<section.heading>> ELSE section.content)

\* one pass of {% for section in sections %} over a loop body
LoopBody(body, section) == [k \in 1..Len(body) |-> SectionPiece(body[k], section)]

\* {% for section in sections %} ... {% endfor %}: the passes in list order
RECURSIVE ForSections(_, _)
ForSections(body, sections) ==
  IF sections = << >> THEN << >>
  ELSE LoopBody(body, Head(sections)) \o ForSections(body, Tail(sections))

RECURSIVE Loops(_, _)
Loops(loops, sections) ==
  IF loops = << >> THEN << >>
  ELSE ForSections(Head(loops), sections) \o Loops(Tail(loops), sections)

\* template.render(...) of a template with the given layout: the texts
\* substituted into the page, in page order
Render(layout, html) ==
  [k \in 1..Len(layout.head) |-> Piece(layout.head[k], html[layout.head[k]])]
    \o Loops(layout.loops, html.sections)

\* the text of a page rendered from the template file the generator created
\* (nothing for a file that was opened and not written)
HtmlText(html) ==
  IF html.template \notin DOMAIN TemplateLayout THEN << >>
  ELSE Render(TemplateLayout[html.template], html)

\* the tokens of a text as one string
RECURSIVE Join(_)
Join(text) == IF text = << >> THEN "" ELSE Head(text) \o Join(Tail(text))

\* len(s.split()): the whitespace-separated words of a string
StrWords(s) ==
  LET spaces == { k \in 1..Len(s) : SubSeq(s, k, k) \in Whitespace }
  IN  Cardinality({ k \in 1..Len(s) : k \notin spaces /\ (k = 1 \/ k - 1 \in spaces) })

\* the texts the pages of a batch are made of: the model's answers, the
\* fallbacks and the catalog headings
BatchTexts ==
  { TitleFallback, SectionFallback, Strip(ModelReply([kind |-> "meta", about |-> "meta"])) }
    \cup { Strip(ModelReply([kind |-> "title", about |-> VariationSuffix[k]])) :
             k \in 1..Len(VariationSuffix) }
    \cup UNION { UNION { { Strip(ModelReply([kind |-> "section",
                                             about |-> SectionTypes[style][k].type])),
                           <<SectionTypes[style][k].heading>> } :
                         k \in 1..Len(SectionTypes[style]) } :
                 style \in DOMAIN SectionTypes }

\* their word counts, computed once
BatchTextWords == [text \in BatchTexts |-> StrWords(Join(text))]

\* len(text.split()) of a text given as tokens
Words(text) ==
  IF text \in BatchTexts THEN BatchTextWords[text] ELSE StrWords(Join(text))

\* the words a substituted text adds to the one word its placeholder stands
\* for between its tags
RECURSIVE ExtraWords(_)
ExtraWords(pieces) ==
  IF pieces = << >> THEN 0
  ELSE Max(Words(Head(pieces).text), 1) - 1 + ExtraWords(Tail(pieces))

\* len(html_content.split())
HtmlWords(html) ==
  IF html.template \notin DOMAIN TemplateLayout THEN 0
  ELSE LET layout == TemplateLayout[html.template]
       IN  layout.words + Len(html.sections) * layout.section_words
             + ExtraWords(HtmlText(html))

\* int(len(html_content.split()) * 1.3): int() truncates (the float product
\* is never below the exact one, 1.3 being stored slightly high)
TokensUsed(words) == (words * 13) \div 10

\* file_path = f"sites/site_{site_id}.html"
FilePath(site_id) == <<"sites/site_", site_id, ".html">>

\* self.api_key = api_key or os.getenv("OPENAI_API_KEY"); "" stands for an
\* absent or empty value
ApiKey(api_key, env) == IF api_key # "" THEN api_key ELSE env

\* if not self.api_key: raise ValueError
ConstructNeverRaises(api_key, env) == FALSE
ConstructRaises(api_key, env) == ApiKey(api_key, env) = ""

\* the file site_<name>.html with the text _get_<name>_template returns
TemplateFile(name) == [name |-> name, content |-> TemplateLayout[name]]

\* _ensure_templates: each of the four files is written when no file of its
\* name exists; a file that exists is left as it is
EnsureTemplatesRewriting(existing) ==
  { TemplateFile(TemplateStyles[n]) : n \in 1..Len(TemplateStyles) }
EnsureTemplates(existing) ==
  existing \cup { TemplateFile(TemplateStyles[n]) :
                    n \in { m \in 1..Len(TemplateStyles) :
                              \A file \in existing : file.name # TemplateStyles[m] } }

\* ChatOpenAI(model="gpt-3.5-turbo", temperature=0.9, top_p=0.95)
InitLlm == [temperature |-> InitTemperature, top_p |-> InitTopP]
NoLlm == [temperature |-> 0, top_p |-> 0]

\* the generator of the server process (main.py: generator = WebsiteGenerator());
\* the command line run in slot b owns generator b
ServerGen == 0

(***************************************************************************)
(* Request validation.                                                     *)
(***************************************************************************)
\* GenerateRequest: pages_count ge=1 le=50, max_tokens ge=100 le=2000
HttpValid(req) ==
  /\ req.count >= MinPagesCount /\ req.count <= MaxPagesCount
  /\ req.max_tokens >= MinMaxTokens /\ req.max_tokens <= MaxMaxTokens

\* parse_args: --count and --tokens are type=int (any integer, negative ones
\* included), --style has choices
CliValid(req) == req.style \in {"educational", "marketing", "technical"}

\* topic is any string ("" included); style is any string over HTTP
Topics == {"AI", ""}
Styles == {"technical", "fancy"}

Ordinary == [topic |-> "AI", count |-> MinPagesCount, style |-> "technical",
             max_tokens |-> DefaultTokens]

\* The requests that arrive: at most one field away from an ordinary request.
Requests(counts, tokens) ==
  { r \in [topic : Topics, count : counts, style : Styles, max_tokens : tokens] :
      Cardinality({ f \in DOMAIN r : r[f] # Ordinary[f] }) <= 1 }

HttpRequests ==
  Requests(0..MaxCount \cup {MaxPagesCount + 1},
           {MinMaxTokens - 1, DefaultTokens, MaxMaxTokens + 1})

CliRequests == Requests(-1..MaxCount, {MinMaxTokens - 1, DefaultTokens})


(***************************************************************************)
(* State.                                                                  *)
(***************************************************************************)
VARIABLES
  envKey,      \* OPENAI_API_KEY of the environment ("" when unset)
  server,      \* the server process: "off", "up", "failed"
  generators,  \* the generators constructed so far (ServerGen or a slot)
  llm,         \* per generator, self.llm's temperature and top_p
  templates,   \* the template files present under app/templates
  sitesDir,    \* whether the sites directory exists
  files,       \* the site files: site_id -> contents
  issuedIds,   \* the values uuid.uuid4() has returned
  logs,        \* rows of generation_logs, in insertion order
  metadata,    \* rows of site_metadata
  batch,       \* per request slot, the request and its coroutine's locals
  modelUp,     \* whether the hosted model answers
  outages,     \* how often it has gone down
  writeFaults, \* site-file writes that have failed
  fetched,     \* per request slot, the answer of its GET /site/{site_id}
  clock,       \* the database's CURRENT_TIMESTAMP, in whole seconds
  called,      \* the last direct call of a Database or PromptManager method
  returned     \* what that call returned

vars == << envKey, server, generators, llm, templates, sitesDir, files, issuedIds,
           logs, metadata, batch, modelUp, outages, writeFaults, fetched,
           clock, called, returned >>

NoCalled == [op |-> "none", topic |-> "", style |-> "", n |-> 0]

NoCall == [state |-> "none", prompt |-> NoPrompt, temperature |-> 0, top_p |-> 0]

\* the locals of one _generate_single call, before it starts
NoSite ==
  [site_id |-> 0, title_prompt |-> NoPrompt, meta_prompt |-> NoPrompt,
   section_prompts |-> <<>>, title |-> <<>>, meta_description |-> <<>>,
   sections |-> <<>>, call |-> NoCall]

IdleBatch ==
  [path |-> "none", pc |-> "idle", outcome |-> "none",
   topic |-> "", count |-> 0, style |-> "", max_tokens |-> 0,
   i |-> 0, websites |-> <<>>, response |-> <<>>,
   temp_variation |-> 0, top_p_variation |-> 0, template_style |-> "",
   site |-> NoSite, issued |-> <<>>]

NoFetch == [site_id |-> 0, status |-> 0, body |-> EmptyHtml]

Init ==
  /\ envKey \in {"", "sk-test"}
  /\ server = "off"
  /\ generators = {}
  /\ llm = [g \in {ServerGen} \cup Batches |-> NoLlm]
  /\ templates = {}
  /\ sitesDir = FALSE
  /\ files = << >>
  /\ issuedIds = {}
  /\ logs = << >>
  /\ metadata = {}
  /\ batch = [b \in Batches |-> IdleBatch]
  /\ modelUp = TRUE
  /\ outages = 0
  /\ writeFaults = 0
  /\ fetched = [b \in Batches |-> NoFetch]
  /\ clock = 0
  /\ called = NoCalled
  /\ returned = << >>

\* the generator a batch runs on
GenOf(b) == IF batch[b].path = "http" THEN ServerGen ELSE b

\* a batch is inside generate_multiple or between its return and the answer
Running(b) == batch[b].pc \in {"loop", "await", "render", "returned"}

\* no batch is running: requests are served one after the other
Quiet == \A b \in Batches : ~Running(b)

\* sites the requests accepted so far ask for
RECURSIVE Reserved(_)
Reserved(b) ==
  IF b = 0 THEN 0
  ELSE Reserved(b - 1)
         + (IF batch[b].path \in {"http", "cli"} THEN Max(batch[b].count, 0) ELSE 0)

RECURSIVE CallsOf(_)
CallsOf(websites) ==
  IF websites = <<>> THEN 0 ELSE 2 + Head(websites).sections_count + CallsOf(Tail(websites))

\* model calls batch b has made or is still going to make, a site not yet
\* started counted with the fewest sections
Committed(b) ==
  IF ~Running(b) THEN Len(batch[b].issued)
  ELSE LET active == batch[b].pc \in {"await", "render"}
       IN  CallsOf(batch[b].websites)
             + (IF active THEN 2 + Len(batch[b].site.section_prompts) ELSE 0)
             + Max(batch[b].count - batch[b].i - (IF active THEN 1 ELSE 0), 0)
                 * (2 + MinSections)

RECURSIVE CommittedUpTo(_)
CommittedUpTo(b) == IF b = 0 THEN 0 ELSE CommittedUpTo(b - 1) + Committed(b)

\* model calls left for sites that draw more than the fewest sections
Slack == MaxCalls - CommittedUpTo(MaxBatches)

\* slot b is the next free one
NextSlot(b) ==
  /\ batch[b].pc = "idle"
  /\ \A c \in Batches : c < b => batch[c].pc # "idle"

\* the request fits the exploration
CanArrive(b, req) ==
  /\ NextSlot(b)
  /\ req.count <= MaxPagesCount =>
       /\ Reserved(MaxBatches) + Max(req.count, 0) <= MaxSites
       /\ Max(req.count, 0) * (2 + MinSections) <= Slack

(***************************************************************************)
(* The server process (main.py).                                           *)
(***************************************************************************)
\* the server starts: the module import constructs the generator
\* (generator = WebsiteGenerator()), then lifespan runs db.init_db() and
\* Path("sites").mkdir(exist_ok=True); a ValueError of the constructor ends
\* the process before lifespan
ServerStart ==
  /\ server = "off"
  /\ IF ConstructRaises("", envKey)
       THEN /\ server' = "failed"
            /\ UNCHANGED << generators, llm, templates, sitesDir >>
       ELSE /\ server' = "up"
            /\ generators' = generators \cup {ServerGen}
            /\ llm' = [llm EXCEPT ![ServerGen] = InitLlm]
            /\ templates' = EnsureTemplates(templates)
            /\ sitesDir' = TRUE
  /\ UNCHANGED << envKey, clock, called, returned, files, issuedIds, logs, metadata, batch,
                  modelUp, outages, writeFaults, fetched >>

\* generate_multiple is entered: websites = []
EnterGenerateMultiple(rec, path, req) ==
  [rec EXCEPT !.path = path, !.pc = "loop", !.topic = req.topic, !.count = req.count,
              !.style = req.style, !.max_tokens = req.max_tokens,
              !.i = 0, !.websites = <<>>]

\* the request ends before generate_multiple is called
Rejected(rec, path, outcome) == [rec EXCEPT !.path = path, !.pc = "done", !.outcome = outcome]

\* POST /generate: the request model validates, then the handler awaits
\* generator.generate_multiple
HttpGenerate(b, req) ==
  /\ server = "up"
  /\ CanArrive(b, req)
  /\ batch' = [batch EXCEPT ![b] =
                 IF HttpValid(req) THEN EnterGenerateMultiple(@, "http", req)
                 ELSE Rejected(@, "http", "invalid")]
  /\ UNCHANGED << envKey, clock, called, returned, server, generators, llm, templates, sitesDir, files,
                  issuedIds, logs, metadata, modelUp, outages, writeFaults, fetched >>

\* get_site: the file's contents, or 404 when the path does not exist
SiteResponseFault(fs, id) ==
  IF id \in DOMAIN fs
    THEN [site_id |-> id, status |-> 200, body |-> fs[id]]
    ELSE [site_id |-> id, status |-> 500, body |-> EmptyHtml]
SiteResponse(fs, id) ==
  IF id \in DOMAIN fs
    THEN [site_id |-> id, status |-> 200, body |-> fs[id]]
    ELSE [site_id |-> id, status |-> 404, body |-> EmptyHtml]

\* GET /site/{site_id}
GetSite(b, id) ==
  /\ server = "up"
  /\ NextSlot(b)
  /\ fetched' = [fetched EXCEPT ![b] = SiteResponse(files, id)]
  /\ batch' = [batch EXCEPT ![b] = [@ EXCEPT !.path = "get", !.pc = "done", !.outcome = "ok"]]
  /\ UNCHANGED << envKey, clock, called, returned, server, generators, llm, templates, sitesDir, files,
                  issuedIds, logs, metadata, modelUp, outages, writeFaults >>

(***************************************************************************)
(* The command line (generate.py).                                         *)
(***************************************************************************)
\* main(): parse_args, mkdir sites, init_db, WebsiteGenerator(), then
\* generate_multiple is awaited; a ValueError of the constructor exits 1
CliMain(b, req) ==
  /\ CanArrive(b, req)
  /\ IF ~CliValid(req)
       THEN /\ batch' = [batch EXCEPT ![b] = Rejected(@, "cli", "invalid")]
            /\ UNCHANGED << sitesDir, generators, llm, templates >>
       ELSE /\ sitesDir' = TRUE
            /\ IF ConstructRaises("", envKey)
                 THEN /\ batch' = [batch EXCEPT ![b] = Rejected(@, "cli", "error")]
                      /\ UNCHANGED << generators, llm, templates >>
                 ELSE /\ generators' = generators \cup {b}
                      /\ llm' = [llm EXCEPT ![b] = InitLlm]
                      /\ templates' = EnsureTemplates(templates)
                      /\ batch' = [batch EXCEPT ![b] = EnterGenerateMultiple(@, "cli", req)]
  /\ UNCHANGED << envKey, clock, called, returned, server, files, issuedIds, logs, metadata,
                  modelUp, outages, writeFaults, fetched >>


(***************************************************************************)
(* generate_multiple and _generate_single.                                 *)
(***************************************************************************)
\* uuid.uuid4(): a value never returned before (the values are
\* interchangeable: the least unused one stands for any fresh value)
Uuid4Repeating(issued) == { u \in Uuids : \A v \in Uuids : u <= v }
Uuid4(issued) == { u \in Uuids \ issued : \A v \in Uuids \ issued : u <= v }

\* random.uniform(0.8, 1.0), random.uniform(0.85, 0.98) and
\* random.choice(template_styles): the draws explored for a site pair the
\* n-th template with the low (n odd) or the high (n even) end of both ranges
SiteDraws ==
  { [temperature |-> IF n % 2 = 1 THEN TempLow ELSE TempHigh,
     top_p |-> IF n % 2 = 1 THEN TopPLow ELSE TopPHigh,
     template_style |-> TemplateStyles[n]] :
      n \in 1..Min(MaxTemplateDraw, Len(TemplateStyles)) }

\* asyncio.to_thread(self.llm.invoke, prompt): the call is handed to a worker
Submit(prompt) == [state |-> "queued", prompt |-> prompt, temperature |-> 0, top_p |-> 0]

\* what the history records of a submitted call
Issued(i, site) ==
  [site |-> i, kind |-> site.call.prompt.kind,
   n |-> IF site.call.prompt.kind = "section" THEN Len(site.sections) + 1 ELSE 0]

\* _generate_single up to its first await: the site id, the prompts, and the
\* title call handed to the worker
BeginSingle(id, title_prompt, meta_prompt, section_prompts) ==
  [NoSite EXCEPT !.site_id = id,
                 !.title_prompt = title_prompt,
                 !.meta_prompt = meta_prompt,
                 !.section_prompts = section_prompts,
                 !.call = Submit(title_prompt)]

\* for i in range(count): whether the loop body runs once more
LoopOffByOne(i, count) == i < count - 1
LoopContinues(i, count) == i < count

\* for i in range(count): the draws, self.llm.temperature / top_p, and the
\* start of _generate_single
LoopIter(b) ==
  /\ batch[b].pc = "loop"
  /\ LoopContinues(batch[b].i, batch[b].count)
  /\ \E draw \in SiteDraws, id \in Uuid4(issuedIds),
        title_prompt \in GetTitlePrompt(batch[b].topic, batch[b].style, batch[b].i),
        meta_prompt \in GetMetaPrompt(batch[b].topic, batch[b].style),
        sp \in GetSectionPrompts(batch[b].topic, batch[b].style, batch[b].max_tokens) :
       LET temp == draw.temperature
           top_p == draw.top_p
           template_style == draw.template_style
           site == BeginSingle(id, title_prompt, meta_prompt, sp)
       IN  /\ Len(sp) - MinSections <= Slack
           /\ llm' = [llm EXCEPT ![GenOf(b)] = [temperature |-> temp, top_p |-> top_p]]
           /\ issuedIds' = issuedIds \cup {id}
           /\ batch' = [batch EXCEPT ![b] =
                          [@ EXCEPT !.temp_variation = temp, !.top_p_variation = top_p,
                                    !.template_style = template_style,
                                    !.site = site, !.pc = "await",
                                    !.issued = Append(@, Issued(batch[b].i, site))]]
  /\ UNCHANGED << envKey, clock, called, returned, server, generators, templates, sitesDir, files, logs,
                  metadata, modelUp, outages, writeFaults, fetched >>

\* the worker thread runs self.llm.invoke(prompt): it reads the generator's
\* temperature and top_p when it builds the request
WorkerInvoke(b) ==
  /\ batch[b].pc = "await"
  /\ batch[b].site.call.state = "queued"
  /\ batch' = [batch EXCEPT ![b].site.call =
                 [@ EXCEPT !.state = "sent",
                           !.temperature = llm[GenOf(b)].temperature,
                           !.top_p = llm[GenOf(b)].top_p]]
  /\ UNCHANGED << envKey, clock, called, returned, server, generators, llm, templates, sitesDir, files,
                  issuedIds, logs, metadata, modelUp, outages, writeFaults, fetched >>

\* _generate_content: the stripped answer, or the fallback when the call raised
GenerateContentNoFallback(ok, reply) == IF ok THEN Strip(reply) ELSE <<>>
GenerateContent(ok, reply) == IF ok THEN Strip(reply) ELSE TitleFallback

\* _generate_sections, one pass of its loop: the entry appended for a prompt
SectionEntry(section_data, ok, reply) ==
  [heading |-> section_data.heading,
   content |-> IF ok THEN Strip(reply) ELSE SectionFallback]

\* the section call that follows once `done` sections are in, if any
NextSectionCallReversed(section_prompts, done) ==
  IF done < Len(section_prompts)
    THEN Submit(section_prompts[Len(section_prompts) - done].prompt)
    ELSE NoCall
NextSectionCall(section_prompts, done) ==
  IF done < Len(section_prompts) THEN Submit(section_prompts[done + 1].prompt) ELSE NoCall

\* the coroutine resumes with the call's outcome and runs to its next await
AfterCallClobbering(site, ok, reply) ==
  CASE site.call.prompt.kind = "title" ->
         [site EXCEPT !.title = GenerateContent(ok, reply),
                      !.call = Submit(site.meta_prompt)]
    [] site.call.prompt.kind = "meta" ->
         [site EXCEPT !.meta_description = GenerateContent(ok, reply),
                      !.title = IF ok THEN @ ELSE TitleFallback,
                      !.call = NextSectionCall(site.section_prompts, 0)]
    [] OTHER ->
         [site EXCEPT !.sections =
                        Append(@, SectionEntry(site.section_prompts[Len(site.sections) + 1],
                                               ok, reply)),
                      !.call = NextSectionCall(site.section_prompts, Len(site.sections) + 1)]
AfterCallRetrying(site, ok, reply) ==
  IF ~ok THEN [site EXCEPT !.call = Submit(site.call.prompt)]
  ELSE CASE site.call.prompt.kind = "title" ->
              [site EXCEPT !.title = GenerateContent(ok, reply),
                           !.call = Submit(site.meta_prompt)]
         [] site.call.prompt.kind = "meta" ->
              [site EXCEPT !.meta_description = GenerateContent(ok, reply),
                           !.call = NextSectionCall(site.section_prompts, 0)]
         [] OTHER ->
              [site EXCEPT !.sections =
                             Append(@, SectionEntry(site.section_prompts[Len(site.sections) + 1],
                                                    ok, reply)),
                           !.call = NextSectionCall(site.section_prompts,
                                                    Len(site.sections) + 1)]
AfterCall(site, ok, reply) ==
  CASE site.call.prompt.kind = "title" ->
         [site EXCEPT !.title = GenerateContent(ok, reply),
                      !.call = Submit(site.meta_prompt)]
    [] site.call.prompt.kind = "meta" ->
         [site EXCEPT !.meta_description = GenerateContent(ok, reply),
                      !.call = NextSectionCall(site.section_prompts, 0)]
    [] OTHER ->
         [site EXCEPT !.sections =
                        Append(@, SectionEntry(site.section_prompts[Len(site.sections) + 1],
                                               ok, reply)),
                      !.call = NextSectionCall(site.section_prompts, Len(site.sections) + 1)]

Resume(b, ok) ==
  LET site == AfterCall(batch[b].site, ok, ModelReply(batch[b].site.call.prompt))
  IN  batch' = [batch EXCEPT ![b] =
                  IF site.call.state = "none"
                    THEN [@ EXCEPT !.site = site, !.pc = "render"]
                    ELSE [@ EXCEPT !.site = site,
                                   !.issued = Append(@, Issued(batch[b].i, site))]]

\* the hosted model answers the call
ModelAnswers(b) ==
  /\ batch[b].pc = "await"
  /\ batch[b].site.call.state = "sent"
  /\ modelUp
  /\ Resume(b, TRUE)
  /\ UNCHANGED << envKey, clock, called, returned, server, generators, llm, templates, sitesDir, files,
                  issuedIds, logs, metadata, modelUp, outages, writeFaults, fetched >>

\* self.llm.invoke raises (transport, authentication or model error)
ModelRaises(b) ==
  /\ batch[b].pc = "await"
  /\ batch[b].site.call.state = "sent"
  /\ ~modelUp
  /\ Resume(b, FALSE)
  /\ UNCHANGED << envKey, clock, called, returned, server, generators, llm, templates, sitesDir, files,
                  issuedIds, logs, metadata, modelUp, outages, writeFaults, fetched >>

\* the hosted model becomes unreachable, or reachable again
ModelGoesDown ==
  /\ modelUp
  /\ outages < MaxOutages
  /\ \E b \in Batches : batch[b].pc = "await"
  /\ modelUp' = FALSE
  /\ outages' = outages + 1
  /\ UNCHANGED << envKey, clock, called, returned, server, generators, llm, templates, sitesDir, files,
                  issuedIds, logs, metadata, batch, writeFaults, fetched >>

ModelRecovers ==
  /\ ~modelUp
  /\ \E b \in Batches : batch[b].pc = "await"
  /\ modelUp' = TRUE
  /\ UNCHANGED << envKey, clock, called, returned, server, generators, llm, templates, sitesDir, files,
                  issuedIds, logs, metadata, batch, outages, writeFaults, fetched >>


\* the dict _generate_single returns
SiteRecord(site, template_style, html_content) ==
  [site_id |-> site.site_id, title |-> site.title,
   meta_description |-> site.meta_description, file_path |-> FilePath(site.site_id),
   sections_count |-> Len(site.sections),
   tokens_used |-> TokensUsed(HtmlWords(html_content)),
   template_style |-> template_style]

\* open(file_path, 'w') and f.write(html_content)
WriteFileTruncated(fs, site_id, html) == (site_id :> EmptyHtml) @@ fs
WriteFile(fs, site_id, html) == (site_id :> html) @@ fs

\* the rest of _generate_single after the last section: colours, rendering,
\* the site file, the record; then websites.append(website)
RenderAndWrite(b) ==
  /\ batch[b].pc = "render"
  /\ sitesDir
  /\ \E color_scheme \in GetRandomColors :
       LET site == batch[b].site
           html == RenderHtml(site.site_id, site.title, site.meta_description,
                              site.sections, color_scheme, batch[b].template_style)
       IN  /\ files' = WriteFile(files, site.site_id, html)
           /\ batch' = [batch EXCEPT ![b] =
                          [@ EXCEPT !.websites =
                                      Append(@, SiteRecord(site, batch[b].template_style, html)),
                                    !.i = @ + 1, !.site = NoSite, !.pc = "loop"]]
  /\ UNCHANGED << envKey, clock, called, returned, server, generators, llm, templates, sitesDir, issuedIds,
                  logs, metadata, modelUp, outages, writeFaults, fetched >>

\* the exception leaves generate_multiple; POST /generate turns it into a 500,
\* generate.py prints it and exits 1
Abort(rec, outcome) ==
  [rec EXCEPT !.pc = "done", !.outcome = outcome, !.site = NoSite,
              !.temp_variation = 0, !.top_p_variation = 0, !.template_style = ""]

\* open() or f.write() raises OSError: nothing in _generate_single or
\* generate_multiple catches it.  When open() succeeded the file is there, empty.
WriteRaises(b, opened) ==
  /\ batch[b].pc = "render"
  /\ writeFaults < MaxWriteFaults
  /\ writeFaults' = writeFaults + 1
  /\ files' = IF opened THEN WriteFile(files, batch[b].site.site_id, EmptyHtml) ELSE files
  /\ batch' = [batch EXCEPT ![b] = Abort(@, "error")]
  /\ UNCHANGED << envKey, clock, called, returned, server, generators, llm, templates, sitesDir, issuedIds,
                  logs, metadata, modelUp, outages, fetched >>

\* the request task is cancelled while it awaits a model call (client gone,
\* server shutdown, Ctrl-C): CancelledError is not an Exception
Cancel(b) ==
  /\ batch[b].pc = "await"
  /\ batch' = [batch EXCEPT ![b] = Abort(@, "cancelled")]
  /\ UNCHANGED << envKey, clock, called, returned, server, generators, llm, templates, sitesDir, files,
                  issuedIds, logs, metadata, modelUp, outages, writeFaults, fetched >>

\* return websites
Return(b) ==
  /\ batch[b].pc = "loop"
  /\ ~LoopContinues(batch[b].i, batch[b].count)
  /\ batch' = [batch EXCEPT ![b] =
                 [@ EXCEPT !.pc = "returned", !.temp_variation = 0,
                           !.top_p_variation = 0, !.template_style = ""]]
  /\ UNCHANGED << envKey, clock, called, returned, server, generators, llm, templates, sitesDir, files,
                  issuedIds, logs, metadata, modelUp, outages, writeFaults, fetched >>

\* json.dumps of a list of site ids
RECURSIVE JsonItems(_)
JsonItems(ids) ==
  IF ids = <<>> THEN <<>>
  ELSE IF Len(ids) = 1 THEN <<ToString(Head(ids))>>
  ELSE <<ToString(Head(ids)), ", ">> \o JsonItems(Tail(ids))

JsonDumps(ids) == <<"[">> \o JsonItems(ids) \o <<"]">>

\* Database.log_generation: one row inserted; id is the AUTOINCREMENT key,
\* timestamp the column default CURRENT_TIMESTAMP
LogGenerationOverwriting(rows, topic, pages_count, style, site_ids, now) ==
  << [id |-> 1, topic |-> topic, pages_count |-> pages_count, style |-> style,
      site_ids |-> JsonDumps(site_ids), timestamp |-> now] >>
LogGeneration(rows, topic, pages_count, style, site_ids, now) ==
  Append(rows, [id |-> Len(rows) + 1, topic |-> topic, pages_count |-> pages_count,
                style |-> style, site_ids |-> JsonDumps(site_ids), timestamp |-> now])

\* Database.get_site_metadata: the row of site_metadata with the id, or None
NoRow == [site_id |-> 0]
GetSiteMetadata(rows, site_id) ==
  IF \E row \in rows : row.site_id = site_id
    THEN CHOOSE row \in rows : row.site_id = site_id
    ELSE NoRow

SiteIds(websites) == [k \in 1..Len(websites) |-> websites[k].site_id]

\* WebsiteMetadata: the fields of the response model
WebsiteMetadata(w) ==
  [site_id |-> w.site_id, title |-> w.title, meta_description |-> w.meta_description,
   file_path |-> w.file_path, sections_count |-> w.sections_count,
   tokens_used |-> w.tokens_used]

\* POST /generate after generate_multiple returned: log the batch, answer
HttpRespond(b) ==
  /\ batch[b].pc = "returned"
  /\ batch[b].path = "http"
  /\ logs' = LogGeneration(logs, batch[b].topic, batch[b].count, batch[b].style,
                           SiteIds(batch[b].websites), clock)
  /\ batch' = [batch EXCEPT ![b] =
                 [@ EXCEPT !.pc = "done", !.outcome = "ok",
                           !.response = [k \in 1..Len(batch[b].websites) |->
                                           WebsiteMetadata(batch[b].websites[k])]]]
  /\ UNCHANGED << envKey, clock, called, returned, server, generators, llm, templates, sitesDir, files,
                  issuedIds, metadata, modelUp, outages, writeFaults, fetched >>

\* generate.py after generate_multiple returned: log the batch, print the
\* summary (duration / args.count raises ZeroDivisionError for --count 0)
CliFinish(b) ==
  /\ batch[b].pc = "returned"
  /\ batch[b].path = "cli"
  /\ logs' = LogGeneration(logs, batch[b].topic, batch[b].count, batch[b].style,
                           SiteIds(batch[b].websites), clock)
  /\ batch' = [batch EXCEPT ![b] =
                 [@ EXCEPT !.pc = "done",
                           !.outcome = IF batch[b].count = 0 THEN "error" ELSE "ok"]]
  /\ UNCHANGED << envKey, clock, called, returned, server, generators, llm, templates, sitesDir, files,
                  issuedIds, metadata, modelUp, outages, writeFaults, fetched >>

\* Requests served one after the other, over HTTP and from the command line.
Next ==
  \/ ServerStart
  \/ \E b \in Batches, req \in HttpRequests : Quiet /\ HttpGenerate(b, req)
  \/ \E b \in Batches, req \in CliRequests : Quiet /\ CliMain(b, req)
  \/ \E b \in Batches, id \in Uuids : Quiet /\ GetSite(b, id)
  \/ \E b \in Batches : LoopIter(b)
  \/ \E b \in Batches : WorkerInvoke(b)
  \/ \E b \in Batches : ModelAnswers(b)
  \/ \E b \in Batches : ModelRaises(b)
  \/ ModelGoesDown
  \/ ModelRecovers
  \/ \E b \in Batches : RenderAndWrite(b)
  \/ \E b \in Batches, opened \in BOOLEAN : WriteRaises(b, opened)
  \/ \E b \in Batches : Cancel(b)
  \/ \E b \in Batches : Return(b)
  \/ \E b \in Batches : HttpRespond(b)
  \/ \E b \in Batches : CliFinish(b)

Spec == Init /\ [][Next]_vars

\* Overlapping POST /generate requests on the one generator of the server.
NextConc ==
  \/ ServerStart
  \/ \E b \in Batches, req \in HttpRequests : HttpGenerate(b, req)
  \/ \E b \in Batches : LoopIter(b)
  \/ \E b \in Batches : WorkerInvoke(b)
  \/ \E b \in Batches : ModelAnswers(b)
  \/ \E b \in Batches : ModelRaises(b)
  \/ ModelGoesDown
  \/ ModelRecovers
  \/ \E b \in Batches : RenderAndWrite(b)
  \/ \E b \in Batches, opened \in BOOLEAN : WriteRaises(b, opened)
  \/ \E b \in Batches : Cancel(b)
  \/ \E b \in Batches : Return(b)
  \/ \E b \in Batches : HttpRespond(b)

SpecConc == Init /\ [][NextConc]_vars

(***************************************************************************)
(* Database (app/database.py): the queries, and direct calls of its        *)
(* methods.                                                                *)
(***************************************************************************)
\* LIMIT n: the first n rows; a negative n is no limit (SQLite)
LimitNone(rows, n) == rows
Limit(rows, n) == IF n < 0 THEN rows ELSE SubSeq(rows, 1, Min(n, Len(rows)))

\* ORDER BY timestamp DESC: the rows in any order with non-increasing
\* timestamps; the order among equal timestamps is not defined by the query
RECURSIVE ByTimestampDesc(_)
ByTimestampDesc(rows) ==
  IF rows = {} THEN { << >> }
  ELSE UNION { { <<r>> \o rest : rest \in ByTimestampDesc(rows \ {r}) } :
               r \in { x \in rows : \A y \in rows : x.timestamp >= y.timestamp } }

\* the rows of a table
Rows(rows) == { rows[n] : n \in 1..Len(rows) }

\* Database.get_logs: the lists the query may return
GetLogs(rows, limit) == { Limit(ordered, limit) : ordered \in ByTimestampDesc(Rows(rows)) }

\* SELECT topic, COUNT(*) as count ... GROUP BY topic
GroupByTopic(rows) ==
  { [topic |-> t, count |-> Cardinality({ n \in 1..Len(rows) : rows[n].topic = t })] :
      t \in { rows[n].topic : n \in 1..Len(rows) } }

\* ORDER BY count DESC: the groups in any order with non-increasing counts
RECURSIVE ByCountDesc(_)
ByCountDesc(groups) ==
  IF groups = {} THEN { << >> }
  ELSE UNION { { <<g>> \o rest : rest \in ByCountDesc(groups \ {g}) } :
               g \in { x \in groups : \A y \in groups : x.count >= y.count } }

\* Database.get_stats, popular_topics: the lists the query may return
PopularTopics(rows) ==
  { Limit(ordered, TopTopics) : ordered \in ByCountDesc(GroupByTopic(rows)) }

\* Database.get_stats, total_generations: SELECT COUNT(*) FROM generation_logs
TotalGenerations(rows) == Len(rows)

\* SELECT SUM(pages_count) FROM generation_logs
RECURSIVE SumPagesCount(_)
SumPagesCount(rows) ==
  IF rows = << >> THEN 0 ELSE Head(rows).pages_count + SumPagesCount(Tail(rows))

\* Database.get_stats, total_sites: the sum, or 0 for NULL (the empty table);
\* `x or 0` is x for every other sum
TotalSites(rows) == IF rows = << >> THEN 0 ELSE SumPagesCount(rows)

\* the topics logged by direct calls: a topic already in the table or the
\* first topic not yet in it
DbTopics == <<"A", "B", "C", "D", "E", "F">>
NextTopics(rows) ==
  { DbTopics[k] : k \in 1..Min(Len(DbTopics), Cardinality(GroupByTopic(rows)) + 1) }

\* db.log_generation(topic, 0, "educational", [])
LogGenerationCall(topic) ==
  /\ Len(logs) < MaxRows
  /\ topic \in NextTopics(logs)
  /\ logs' = LogGeneration(logs, topic, 0, "educational", <<>>, clock)
  /\ called' = [op |-> "log_generation", topic |-> topic, style |-> "educational", n |-> 0]
  /\ returned' = << >>
  /\ UNCHANGED << envKey, server, generators, llm, templates, sitesDir, files, issuedIds,
                  metadata, batch, modelUp, outages, writeFaults, fetched, clock >>

\* a second passes (explored while the table is small enough to be listed)
ClockTick ==
  /\ clock < MaxClock
  /\ Len(logs) <= MaxListed
  /\ clock' = clock + 1
  /\ UNCHANGED << envKey, server, generators, llm, templates, sitesDir, files, issuedIds,
                  logs, metadata, batch, modelUp, outages, writeFaults, fetched,
                  called, returned >>

\* db.get_logs(limit)
GetLogsCall(limit) ==
  /\ Len(logs) <= MaxListed
  /\ called' = [op |-> "get_logs", topic |-> "", style |-> "", n |-> limit]
  /\ returned' \in GetLogs(logs, limit)
  /\ UNCHANGED << envKey, server, generators, llm, templates, sitesDir, files, issuedIds,
                  logs, metadata, batch, modelUp, outages, writeFaults, fetched, clock >>

\* db.get_stats()["popular_topics"] (asked again of the same table it has the
\* same possible answers, so the repeated call is not explored)
GetStatsCall ==
  /\ called.op # "get_stats"
  /\ called' = [op |-> "get_stats", topic |-> "", style |-> "", n |-> 0]
  /\ returned' \in PopularTopics(logs)
  /\ UNCHANGED << envKey, server, generators, llm, templates, sitesDir, files, issuedIds,
                  logs, metadata, batch, modelUp, outages, writeFaults, fetched, clock >>

Limits == {-1, 0, 1, 2, 50}

NextDb ==
  \/ \E k \in 1..Len(DbTopics) : LogGenerationCall(DbTopics[k])
  \/ ClockTick
  \/ \E limit \in Limits : GetLogsCall(limit)
  \/ GetStatsCall

InitDirect == Init /\ envKey # ""

SpecDb == InitDirect /\ [][NextDb]_vars


(***************************************************************************)
(* PromptManager (app/prompts.py): direct calls of its methods.            *)
(***************************************************************************)
PromptTopics == {"AI", ""}
PromptStyles == {"educational", "marketing", "technical", "fancy", ""}
PromptTokens == {-5, 100, 800, 2000}

\* PromptManager keeps no state between calls: each call is explored on its
\* own, from the initial state.

\* every start offset of the sample walk
AllStarts == 0..(Len(SectionTypes["educational"]) - 1)

\* pm.get_section_prompts(topic, style, max_tokens)
GetSectionPromptsCall(topic, style, max_tokens) ==
  /\ called = NoCalled
  /\ called' = [op |-> "get_section_prompts", topic |-> topic, style |-> style,
                n |-> max_tokens]
  /\ returned' \in GetSectionPromptsOver(topic, style, max_tokens, AllStarts)
  /\ UNCHANGED << envKey, server, generators, llm, templates, sitesDir, files, issuedIds,
                  logs, metadata, batch, modelUp, outages, writeFaults, fetched, clock >>

\* pm.get_title_prompt(topic, style, index), random.choice picking any of the
\* base templates
GetTitlePromptCall(topic, style, index) ==
  /\ called = NoCalled
  /\ called' = [op |-> "get_title_prompt", topic |-> topic, style |-> style, n |-> index]
  /\ \E v \in 1..Len(TitleVariations(topic, style)) :
       returned' = << TitlePrompt(topic, style, index, v) >>
  /\ UNCHANGED << envKey, server, generators, llm, templates, sitesDir, files, issuedIds,
                  logs, metadata, batch, modelUp, outages, writeFaults, fetched, clock >>

NextPrompts ==
  \/ \E topic \in PromptTopics, style \in PromptStyles, max_tokens \in PromptTokens :
       GetSectionPromptsCall(topic, style, max_tokens)
  \/ \E topic \in PromptTopics, style \in PromptStyles, index \in 0..MaxIndex :
       GetTitlePromptCall(topic, style, index)

SpecPrompts == InitDirect /\ [][NextPrompts]_vars

(***************************************************************************)
(* WebsiteGenerator (app/generator.py): direct calls of its methods, and   *)
(* template files put or removed from outside the program.                 *)
(***************************************************************************)
RenderTitles == { <<"Test", " ", "Title">>, <<"R", "&", "D">> }
RenderMetas == { <<"Test", " ", "description">>, <<"<", "b", ">">> }
RenderSections ==
  { [heading |-> "Introduction", content |-> <<"This", " ", "is", " ", "test", " ", "content">>],
    [heading |-> "Details", content |-> <<"More", " ", "test", " ", "content">>],
    [heading |-> "Questions", content |-> <<"&">>] }
RenderSectionLists == UNION { [1..n -> RenderSections] : n \in 0..MaxRenderSections }

\* a template file that is not the generator's: a page with the title only
OtherTemplate == [head |-> <<"title">>, loops |-> << >>, words |-> 1, section_words |-> 0]

\* the template files changed from outside
ChangedTemplates == { TemplateStyles[n] : n \in 1..Min(MaxChangedTemplates, Len(TemplateStyles)) }

\* generator = WebsiteGenerator(): a further construction included
ConstructCall ==
  /\ ~ConstructRaises("", envKey)
  /\ generators' = generators \cup {ServerGen}
  /\ llm' = [llm EXCEPT ![ServerGen] = InitLlm]
  /\ templates' = EnsureTemplates(templates)
  /\ called' = [op |-> "WebsiteGenerator", topic |-> "", style |-> "", n |-> 0]
  /\ returned' = << >>
  /\ UNCHANGED << envKey, server, sitesDir, files, issuedIds, logs, metadata, batch,
                  modelUp, outages, writeFaults, fetched, clock >>

\* generator._ensure_templates()
EnsureTemplatesCall ==
  /\ ServerGen \in generators
  /\ templates' = EnsureTemplates(templates)
  /\ called' = [op |-> "_ensure_templates", topic |-> "", style |-> "", n |-> 0]
  /\ returned' = << >>
  /\ UNCHANGED << envKey, server, generators, llm, sitesDir, files, issuedIds, logs,
                  metadata, batch, modelUp, outages, writeFaults, fetched, clock >>

\* a template file is put in place or overwritten from outside the program
TemplateFilePut(name) ==
  /\ [name |-> name, content |-> OtherTemplate] \notin templates
  /\ templates' = { file \in templates : file.name # name }
                    \cup { [name |-> name, content |-> OtherTemplate] }
  /\ called' = [op |-> "put", topic |-> "", style |-> name, n |-> 0]
  /\ returned' = << >>
  /\ UNCHANGED << envKey, server, generators, llm, sitesDir, files, issuedIds, logs,
                  metadata, batch, modelUp, outages, writeFaults, fetched, clock >>

\* a template file is removed from outside the program
TemplateFileRemoved(name) ==
  /\ \E file \in templates : file.name = name
  /\ templates' = { file \in templates : file.name # name }
  /\ called' = [op |-> "removed", topic |-> "", style |-> name, n |-> 0]
  /\ returned' = << >>
  /\ UNCHANGED << envKey, server, generators, llm, sitesDir, files, issuedIds, logs,
                  metadata, batch, modelUp, outages, writeFaults, fetched, clock >>

\* generator._render_html(site_id, title, meta_description, sections,
\* color_scheme, template_name): the page rendered from the template file, or
\* nothing when get_template raises TemplateNotFound (the call keeps no state:
\* made again it gives the same page, so the repeated call is not explored)
RenderHtmlCall(title, meta_description, sections, color_scheme, template_name) ==
  /\ ServerGen \in generators
  /\ called.op # "_render_html"
  /\ called' = [op |-> "_render_html", topic |-> "", style |-> template_name, n |-> 0]
  /\ LET html == RenderHtml(1, title, meta_description, sections, color_scheme,
                            template_name)
     IN  returned' =
           IF \E file \in templates : file.name = template_name
             THEN LET file == CHOOSE f \in templates : f.name = template_name
                  IN  << [html |-> html, text |-> Render(file.content, html)] >>
             ELSE << >>
  /\ UNCHANGED << envKey, server, generators, llm, templates, sitesDir, files, issuedIds,
                  logs, metadata, batch, modelUp, outages, writeFaults, fetched, clock >>

\* generator._get_random_colors(): random.choice(schemes), any entry
GetRandomColorsCall ==
  /\ ServerGen \in generators
  /\ called.op # "_get_random_colors"
  /\ called' = [op |-> "_get_random_colors", topic |-> "", style |-> "", n |-> 0]
  /\ \E n \in 1..Len(Schemes) : returned' = << Schemes[n] >>
  /\ UNCHANGED << envKey, server, generators, llm, templates, sitesDir, files, issuedIds,
                  logs, metadata, batch, modelUp, outages, writeFaults, fetched, clock >>

NextGenerator ==
  \/ ConstructCall
  \/ EnsureTemplatesCall
  \/ \E name \in ChangedTemplates : TemplateFilePut(name)
  \/ \E name \in ChangedTemplates : TemplateFileRemoved(name)
  \/ \E title \in RenderTitles, meta_description \in RenderMetas,
        sections \in RenderSectionLists, n \in 1..Len(TemplateStyles) :
       RenderHtmlCall(title, meta_description, sections, Schemes[1], TemplateStyles[n])
  \/ GetRandomColorsCall

SpecGenerator == InitDirect /\ [][NextGenerator]_vars

(***************************************************************************)
(* Claims.                                                                 *)
(***************************************************************************)
Generating == { b \in Batches : batch[b].path \in {"http", "cli"} }

\* generate_multiple has returned to its caller
HasReturned(b) ==
  \/ batch[b].pc = "returned"
  \/ batch[b].pc = "done" /\ batch[b].outcome = "ok" /\ batch[b].path \in {"http", "cli"}

\* the title of the site of loop index i: the answer to that index's title
\* prompt, or the fallback
TitlesOf(b, i) ==
  {TitleFallback} \cup
    { Strip(ModelReply(p)) : p \in GetTitlePrompt(batch[b].topic, batch[b].style, i) }

\* C1: whatever model calls answered or raised, a generate_multiple call that
\* has returned has returned exactly `count` site records (none for a count
\* below 1, range(count) being empty), the k-th being the site of loop index
\* k-1; a running batch has one record per finished loop
\* iteration and always has a next step (a call to hand over or to end, a
\* page to write, an iteration to start or the return).
C1_ReturnsCountSites ==
  \A b \in Generating :
    /\ Len(batch[b].websites) = batch[b].i
    /\ batch[b].pc = "await" => batch[b].site.call.state \in {"queued", "sent"}
    /\ batch[b].pc = "render" => sitesDir
    /\ batch[b].pc = "loop" /\ LoopContinues(batch[b].i, batch[b].count) =>
         Uuid4(issuedIds) # {}
    /\ batch[b].i <= Max(batch[b].count, 0)
    /\ \A k \in 1..Len(batch[b].websites) : batch[b].websites[k].title \in TitlesOf(b, k - 1)
    /\ HasReturned(b) => Len(batch[b].websites) = Max(batch[b].count, 0)

\* a batch of several sites has returned, all calls of its first site having
\* raised and the title call of its last site having been answered
C1_Witness ==
  \E b \in Generating :
    /\ HasReturned(b)
    /\ batch[b].count > 1
    /\ batch[b].websites[1].title = TitleFallback
    /\ batch[b].websites[1].meta_description = TitleFallback
    /\ \A n \in 1..Len(files[batch[b].websites[1].site_id].sections) :
         files[batch[b].websites[1].site_id].sections[n].content = SectionFallback
    /\ batch[b].websites[batch[b].count].title # TitleFallback

\* C2 (as claimed): a batch that has started on a site never ends in an error;
\* only a failure before any site is attempted ends it.
C2_NeverFailsAsWhole ==
  \A b \in Generating : ~(batch[b].outcome = "error" /\ batch[b].issued # <<>>)

\* C3: when the model call raises, _generate_content yields exactly
\* "Generated content" (title and meta description) and _generate_sections
\* appends the prompt's heading with exactly "Content generation in
\* progress..."; the batch goes on, nothing is raised.
C3_FallbackOnRaise ==
  [][\A b \in Batches :
       ( /\ batch[b].pc = "await"
         /\ batch[b].site.call.state = "sent"
         /\ ~modelUp
         /\ batch'[b] # batch[b]
         /\ batch'[b].outcome # "cancelled" )
       => LET site == batch[b].site
              kind == site.call.prompt.kind
              n    == Len(site.sections) + 1
          IN  /\ batch'[b].pc \in {"await", "render"}
              /\ batch'[b].outcome = "none"
              /\ kind = "title" => batch'[b].site.title = TitleFallback
              /\ kind = "meta" => batch'[b].site.meta_description = TitleFallback
              /\ kind = "section" =>
                   /\ Len(batch'[b].site.sections) = n
                   /\ batch'[b].site.sections[n] =
                        [heading |-> site.section_prompts[n].heading,
                         content |-> SectionFallback]
     ]_vars

\* a site whose title call and first section call both raised
C3_Witness ==
  \E b \in Batches :
    /\ batch[b].site.title = TitleFallback
    /\ batch[b].site.meta_description = TitleFallback
    /\ batch[b].site.sections # <<>>
    /\ batch[b].site.sections[1].content = SectionFallback
    /\ batch[b].site.sections[1].heading = batch[b].site.section_prompts[1].heading


\* C4 (as claimed): every model call of a site is made with the temperature
\* and top_p drawn for that site.
C4_CallsUseOwnJitter ==
  \A b \in Generating :
    batch[b].site.call.state = "sent" =>
      /\ batch[b].site.call.temperature = batch[b].temp_variation
      /\ batch[b].site.call.top_p = batch[b].top_p_variation

\* the call that follows call x in a batch: title, meta, the sections in
\* order, then the title of the next site
Follows(b, x, y) ==
  \/ x.kind = "title" /\ y = [site |-> x.site, kind |-> "meta", n |-> 0]
  \/ x.kind = "meta" /\ y = [site |-> x.site, kind |-> "section", n |-> 1]
  \/ x.kind = "section" /\ y = [site |-> x.site, kind |-> "section", n |-> x.n + 1]
  \/ /\ x.kind = "section"
     /\ y = [site |-> x.site + 1, kind |-> "title", n |-> 0]
     /\ Len(batch[b].websites) > x.site
     /\ batch[b].websites[x.site + 1].sections_count = x.n

\* the calls of the site in progress whose outcome the coroutine holds
Completed(site) ==
  (IF site.title # <<>> THEN 1 ELSE 0) + (IF site.meta_description # <<>> THEN 1 ELSE 0)
    + Len(site.sections)

\* C5: within a batch the calls are issued as title, meta, sections in sampled
\* order, site after site; every call but the last issued has ended, so at
\* most one is in flight, and a call of the next site is issued only once the
\* site before it is finished.
C5_OneCallAtATime ==
  \A b \in Generating :
    LET h == batch[b].issued
        site == batch[b].site
        mine == Len(SelectSeq(h, LAMBDA c : c.site = batch[b].i))
    IN  /\ h # <<>> => h[1] = [site |-> 0, kind |-> "title", n |-> 0]
        /\ \A j \in 1..(Len(h) - 1) : Follows(b, h[j], h[j + 1])
        /\ batch[b].pc \in {"await", "render"} =>
             /\ h[Len(h)].site = batch[b].i
             /\ Completed(site) >= mine - 1
             /\ Completed(site) = mine <=> site.call.state = "none"
        /\ site.call.state # "none" /\ site.call.prompt.kind = "section" =>
             site.call.prompt = site.section_prompts[Len(site.sections) + 1].prompt

\* the second site of a batch is at its last section call while the calls of
\* the first site are all in the history
C5_Witness ==
  \E b \in Generating :
    /\ batch[b].i = 1
    /\ batch[b].pc = "await"
    /\ batch[b].site.call.prompt.kind = "section"
    /\ Len(batch[b].site.sections) = Len(batch[b].site.section_prompts) - 1
    /\ Len(batch[b].issued) = 4 + batch[b].websites[1].sections_count
                                + Len(batch[b].site.section_prompts)

\* what the text of a piece may be: its own call's answer or its fallback
OwnText(prompt, fallback) == { Strip(ModelReply(prompt)), fallback }

SiteFrame(site) ==
  /\ site.title # <<>> => site.title \in OwnText(site.title_prompt, TitleFallback)
  /\ site.meta_description # <<>> =>
       site.meta_description \in OwnText(site.meta_prompt, TitleFallback)
  /\ Len(site.sections) <= Len(site.section_prompts)
  /\ \A n \in 1..Len(site.sections) :
       /\ site.sections[n].heading = site.section_prompts[n].heading
       /\ site.sections[n].content \in OwnText(site.section_prompts[n].prompt, SectionFallback)

\* C6: a call that ends, answered or raised, changes only its own piece: the
\* title, the meta description and the sections already there keep their text,
\* the finished sites of the batch and the other batches are untouched; every
\* piece holds its own call's answer or its fallback, and a site ready to be
\* rendered has one section per section prompt, headings in prompt order.
C6_FailureTouchesOnlyItsPiece ==
  /\ [](\A b \in Batches :
          /\ SiteFrame(batch[b].site)
          /\ batch[b].pc = "render" =>
               Len(batch[b].site.sections) = Len(batch[b].site.section_prompts))
  /\ [][\A b \in Batches :
          ( /\ batch[b].pc = "await"
            /\ batch[b].site.call.state = "sent"
            /\ batch'[b] # batch[b]
            /\ batch'[b].pc # "done" )
          => LET site == batch[b].site
                 kind == site.call.prompt.kind
             IN  /\ kind # "title" => batch'[b].site.title = site.title
                 /\ kind # "meta" => batch'[b].site.meta_description = site.meta_description
                 /\ SubSeq(batch'[b].site.sections, 1, Len(site.sections)) = site.sections
                 /\ Len(batch'[b].site.sections)
                      = Len(site.sections) + (IF kind = "section" THEN 1 ELSE 0)
                 /\ batch'[b].site.section_prompts = site.section_prompts
                 /\ batch'[b].websites = batch[b].websites
                 /\ \A c \in Batches \ {b} : batch'[c] = batch[c]
                 /\ files' = files
       ]_vars

\* a site ready to be rendered whose title call was answered, whose meta call
\* raised and whose sections were answered again
C6_Witness ==
  \E b \in Batches :
    /\ batch[b].pc = "render"
    /\ batch[b].site.title = Strip(ModelReply(batch[b].site.title_prompt))
    /\ batch[b].site.meta_description = TitleFallback
    /\ \A n \in 1..Len(batch[b].site.sections) :
         batch[b].site.sections[n].content # SectionFallback

\* the site ids of the records produced and of the sites in progress
RecordIds(b) == { batch[b].websites[k].site_id : k \in 1..Len(batch[b].websites) }
InProgress(b) == IF batch[b].site.site_id # 0 THEN {batch[b].site.site_id} ELSE {}

\* C7: all site records, of one batch and of different (also overlapping)
\* batches, have distinct site ids, a site in progress has an id no record and
\* no file has; a site file, once there, keeps its contents whatever happens
\* later, the failure or cancellation of its batch included.
C7_UniqueIdsFilesKept ==
  /\ [](\A b \in Batches :
          /\ Cardinality(RecordIds(b)) = Len(batch[b].websites)
          /\ RecordIds(b) \subseteq DOMAIN files
          /\ \A c \in Batches \ {b} :
               (RecordIds(b) \cup InProgress(b)) \cap (RecordIds(c) \cup InProgress(c)) = {}
          /\ InProgress(b) \cap (RecordIds(b) \cup DOMAIN files) = {})
  /\ [][\A id \in DOMAIN files : id \in DOMAIN files' /\ files'[id] = files[id]]_vars

\* a batch wrote its first site, took a second, different id and was then
\* cancelled or failed; the first file is still there
C7_Witness ==
  \E b \in Generating :
    /\ batch[b].outcome \in {"cancelled", "error"}
    /\ batch[b].websites # <<>>
    /\ batch[b].websites[1].site_id \in DOMAIN files
    /\ files[batch[b].websites[1].site_id] # EmptyHtml
    /\ Cardinality(issuedIds) = 2

\* the page a record stands for
PageOf(w) == files[w.site_id]

\* C8: once generate_multiple has returned, each record's file_path is
\* sites/site_<site_id>.html and that file holds the page rendered for the
\* site (its id, title, meta description, sections, template); GET /site with
\* the id answers 200 with that page, and so did every GET that came after.
C8_ReturnedSitesAreServed ==
  \A b \in Generating :
    HasReturned(b) =>
      \A k \in 1..Len(batch[b].websites) :
        LET w == batch[b].websites[k]
        IN  /\ w.file_path = FilePath(w.site_id)
            /\ w.site_id \in DOMAIN files
            /\ PageOf(w).site_id = w.site_id
            /\ PageOf(w).title = w.title
            /\ PageOf(w).meta_description = w.meta_description
            /\ Len(PageOf(w).sections) = w.sections_count
            /\ PageOf(w).template = w.template_style
            /\ SiteResponse(files, w.site_id) =
                 [site_id |-> w.site_id, status |-> 200, body |-> PageOf(w)]
            /\ \A c \in Batches :
                 c > b /\ batch[c].path = "get" /\ fetched[c].site_id = w.site_id =>
                   fetched[c] = [site_id |-> w.site_id, status |-> 200, body |-> PageOf(w)]

\* a batch returned a site and a later GET /site fetched its page
C8_Witness ==
  \E b \in Generating, c \in Batches :
    /\ HasReturned(b)
    /\ batch[b].websites # <<>>
    /\ c > b
    /\ batch[c].path = "get"
    /\ fetched[c].site_id = batch[b].websites[1].site_id
    /\ fetched[c].status = 200

\* C9: without an API key the constructor raises before it creates a template
\* file: no generator exists, no template and no site file is written, no
\* model call is made and no batch enters generate_multiple; and a batch only
\* ever runs on a constructed generator.
C9_NoKeyNoGenerator ==
  /\ \A b \in Generating : Running(b) => GenOf(b) \in generators
  /\ envKey = "" =>
       /\ generators = {}
       /\ templates = {}
       /\ files = << >>
       /\ server \in {"off", "failed"}
       /\ \A b \in Batches : ~Running(b) /\ batch[b].issued = <<>> /\ batch[b].websites = <<>>

\* without a key the server failed to start and a command line run exited
C9_Witness ==
  /\ envKey = ""
  /\ server = "failed"
  /\ \E b \in Batches : batch[b].path = "cli" /\ batch[b].outcome = "error"

\* C10 (as claimed): generate_multiple only runs with count in [1,50] and
\* max_tokens in [100,2000], on the HTTP path and on the command line.
C10_CoreOnlySeesValidRanges ==
  \A b \in Generating :
    Running(b) =>
      /\ batch[b].count >= MinPagesCount /\ batch[b].count <= MaxPagesCount
      /\ batch[b].max_tokens >= MinMaxTokens /\ batch[b].max_tokens <= MaxMaxTokens


\* C11 (as claimed): generate_multiple only runs with a non-empty topic and
\* with a style among educational, marketing, technical, over HTTP and on the
\* command line.
C11_CoreOnlySeesTopicAndKnownStyle ==
  \A b \in Generating :
    Running(b) =>
      /\ batch[b].topic # ""
      /\ batch[b].style \in {"educational", "marketing", "technical"}


\* C12 (as claimed): every site id listed in a batch row has a row in
\* site_metadata, so get_site_metadata returns a row for it.
C12_LoggedSitesHaveMetadata ==
  \A n \in 1..Len(logs) :
    \A id \in Uuids :
      (\E k \in 1..Len(logs[n].site_ids) : logs[n].site_ids[k] = ToString(id)) =>
        GetSiteMetadata(metadata, id) # NoRow


\* the batch row of a call: the request's topic, count and style and the
\* ids of the returned sites in generation order
IsRowOf(row, b) ==
  /\ row.topic = batch[b].topic
  /\ row.pages_count = batch[b].count
  /\ row.style = batch[b].style
  /\ row.site_ids = JsonDumps(SiteIds(batch[b].websites))

C14_LaterLoggedComesFirst ==
  called.op = "get_logs" =>
    /\ called.n >= 0 => Len(returned) <= called.n
    /\ \A i, j \in 1..Len(returned) : i < j => returned[i].id > returned[j].id


\* C15: GET /site/{site_id} for an id no site file exists for (none was ever
\* written, since files are never removed) answers 404 with no page, and the
\* step changes neither the sites directory and its files nor the log store.
C15_UnknownSiteIsNotFound ==
  [][ \A c \in Batches :
        batch[c].path # "get" /\ batch'[c].path = "get"
          /\ fetched'[c].site_id \notin DOMAIN files =>
            /\ fetched'[c].status = 404
            /\ fetched'[c].body = EmptyHtml
            /\ batch'[c].outcome = "ok"
            /\ files' = files
            /\ sitesDir' = sitesDir
            /\ logs' = logs
            /\ metadata' = metadata
    ]_vars

\* a site was generated and a GET for another id was answered 404
C15_Witness ==
  \E c \in Batches :
    /\ batch[c].path = "get"
    /\ fetched[c].status = 404
    /\ fetched[c].site_id \notin DOMAIN files
    /\ files # << >>
    /\ logs # << >>


\* the site summaries the caller of a finished generate command holds: the
\* websites of the HTTP response, the list main() got on the command line
Summaries(b) == IF batch[b].path = "http" THEN batch[b].response ELSE batch[b].websites

\* C16 (as claimed): every site summary returned to the caller, over HTTP
\* included, has a template_style, one of modern, minimal, classic, magazine,
\* naming the template the site's file was rendered with.
C16_SummariesNameTheTemplate ==
  \A b \in Generating :
    batch[b].pc = "done" /\ batch[b].outcome = "ok" =>
      /\ Len(Summaries(b)) = batch[b].count
      /\ \A k \in 1..Len(Summaries(b)) :
           /\ "template_style" \in DOMAIN Summaries(b)[k]
           /\ Summaries(b)[k].template_style \in {"modern", "minimal", "classic", "magazine"}
           /\ Summaries(b)[k].template_style = files[Summaries(b)[k].site_id].template


\* whether the string s occurs in the string text
Contains(text, s) == \E i \in 1..(Len(text) + 1) : SubSeq(text, i, i + Len(s) - 1) = s

\* the headings of the catalog the spec names for a style
CatalogHeadings(style) ==
  LET catalog == IF style \in {"educational", "marketing", "technical"}
                   THEN SectionTypes[style] ELSE SectionTypes["educational"]
  IN  { catalog[k].heading : k \in 1..Len(catalog) }

\* C17: whatever the style string and max_tokens, get_section_prompts returns
\* 3 to 5 entries with pairwise distinct headings, all from the style's
\* catalog (educational's for any other style string), and the style string
\* passed in occurs in every prompt text.
C17_SectionPromptsFromCatalog ==
  called.op = "get_section_prompts" =>
    /\ Len(returned) >= 3 /\ Len(returned) <= 5
    /\ \A j, k \in 1..Len(returned) : j # k => returned[j].heading # returned[k].heading
    /\ \A k \in 1..Len(returned) :
         /\ returned[k].heading \in CatalogHeadings(called.style)
         /\ Contains(PromptText(returned[k].prompt), called.style)

\* an unrecognized style got five educational sections, not in catalog order,
\* whose prompts name the style passed in
C17_Witness ==
  /\ called.op = "get_section_prompts"
  /\ called.style = "fancy"
  /\ Len(returned) = 5
  /\ returned[1].heading # SectionTypes["educational"][1].heading
  /\ returned[1].heading \in CatalogHeadings("educational")
  /\ Contains(PromptText(returned[1].prompt), "Style: fancy.")


\* the section calls a batch has issued for the site of loop index i
SectionCalls(b, i) ==
  Cardinality({ j \in 1..Len(batch[b].issued) :
                  batch[b].issued[j].site = i /\ batch[b].issued[j].kind = "section" })

\* C18: every site record has a sections_count from 3 to 5, the number of
\* section prompts built for the site (one section call was made per prompt
\* and the page holds that many sections), for recognized and unrecognized
\* styles and whichever calls failed.
C18_SectionsCountThreeToFive ==
  \A b \in Generating :
    /\ \A k \in 1..Len(batch[b].websites) :
         LET w == batch[b].websites[k]
         IN  /\ w.sections_count >= 3 /\ w.sections_count <= 5
             /\ w.sections_count = SectionCalls(b, k - 1)
             /\ w.sections_count = Len(files[w.site_id].sections)
    /\ batch[b].pc \in {"await", "render"} =>
         /\ Len(batch[b].site.section_prompts) >= 3
         /\ Len(batch[b].site.section_prompts) <= 5
         /\ Len(batch[b].site.sections) <= Len(batch[b].site.section_prompts)
    /\ batch[b].pc = "render" =>
         /\ Len(batch[b].site.sections) = Len(batch[b].site.section_prompts)
         /\ SectionCalls(b, batch[b].i) = Len(batch[b].site.section_prompts)

\* a returned batch of an unrecognized style has a site of five sections, one
\* of them holding the fallback text
C18_Witness ==
  \E b \in Generating :
    /\ HasReturned(b)
    /\ batch[b].style = "fancy"
    /\ batch[b].websites # <<>>
    /\ batch[b].websites[1].sections_count = 5
    /\ \E n \in 1..5 :
         files[batch[b].websites[1].site_id].sections[n].content = SectionFallback


\* whether the string text ends with the string s
EndsWith(text, s) == SubSeq(text, Len(text) - Len(s) + 1, Len(text)) = s

\* C19: for the topic and style of a get_title_prompt(topic, style, i) call,
\* the prompt differs as a string from every prompt get_title_prompt can
\* return for an index j with j mod 8 # i mod 8, whichever base templates the
\* two calls pick; the prompt ends with the focus suffix, which is the same
\* for every index equal to i mod 8.
C19_TitlePromptsDifferByIndex ==
  called.op = "get_title_prompt" =>
    /\ EndsWith(PromptText(returned[1]), returned[1].about)
    /\ returned[1].about # ""
    /\ \A j \in 0..MaxIndex, v \in 1..Len(TitleVariations(called.topic, called.style)) :
         LET other == TitlePrompt(called.topic, called.style, j, v)
         IN  /\ j % 8 # called.n % 8 => PromptText(other) # PromptText(returned[1])
             /\ j % 8 = called.n % 8 => other.about = returned[1].about

\* index 9 and the last base template: the prompt ends with the suffix of
\* index 1
C19_Witness ==
  /\ called.op = "get_title_prompt"
  /\ called.n = 9
  /\ called.topic = "AI"
  /\ returned[1].variation = 5
  /\ EndsWith(PromptText(returned[1]), "perspective. Avoid clichés. Emphasize practical aspects.")


\* the batch rows logged for a topic
RowsFor(topic) == Cardinality({ n \in 1..Len(logs) : logs[n].topic = topic })

LoggedTopics == { logs[n].topic : n \in 1..Len(logs) }

\* C20: popular_topics of get_stats lists at most 5 topics (all of them when
\* there are no more than 5), each once, with the number of batch rows of the
\* topic, in non-increasing count order; a topic left out has no more rows
\* than any topic listed; after A, A, B the list is A with 2, then B with 1.
C20_PopularTopicsRanked ==
  called.op = "get_stats" =>
    LET listed == { returned[k].topic : k \in 1..Len(returned) }
    IN  /\ Len(returned) <= 5
        /\ Cardinality(LoggedTopics) <= 5 => listed = LoggedTopics
        /\ Cardinality(listed) = Len(returned)
        /\ \A k \in 1..Len(returned) :
             /\ returned[k].topic \in LoggedTopics
             /\ returned[k].count = RowsFor(returned[k].topic)
        /\ \A j, k \in 1..Len(returned) : j < k => returned[j].count >= returned[k].count
        /\ \A t \in LoggedTopics \ listed :
             \A k \in 1..Len(returned) : RowsFor(t) <= returned[k].count
        /\ [n \in 1..Len(logs) |-> logs[n].topic] = <<"A", "A", "B">> =>
             returned = << [topic |-> "A", count |-> 2], [topic |-> "B", count |-> 1] >>

\* six topics are logged, one of them twice: it leads the list of five and
\* one topic with a single row is left out
C20_Witness ==
  /\ called.op = "get_stats"
  /\ Cardinality(LoggedTopics) = 6
  /\ Len(returned) = 5
  /\ returned[1].count = 2
  /\ returned[5].count = 1
  /\ \E t \in LoggedTopics : \A k \in 1..5 : returned[k].topic # t


\* json.loads(row.site_ids): the ids a batch row records
SiteIdsOf(row) ==
  { k \in 1..Len(row.site_ids) : row.site_ids[k] \notin {"[", "]", ", "} }

RECURSIVE SiteIdsRecorded(_)
SiteIdsRecorded(rows) ==
  IF rows = << >> THEN 0
  ELSE Cardinality(SiteIdsOf(Head(rows))) + SiteIdsRecorded(Tail(rows))

\* C21 (as claimed): after any sequence of generate requests, get_stats
\* computed on the log as it stands gives total_generations equal to the
\* number of batch rows and total_sites equal to the number of site ids the
\* batch rows record.
C21_StatsCountRowsAndSites ==
  /\ TotalGenerations(logs) = Len(logs)
  /\ TotalSites(logs) = SiteIdsRecorded(logs)


\* C22 (as claimed): each site record's tokens_used is 1.3 times the number of
\* whitespace-separated words of the page written for it, rounded to the
\* nearest integer (either neighbour for a value half way between two).
C22_TokensUsedIsRounded ==
  \A b \in Generating :
    \A k \in 1..Len(batch[b].websites) :
      LET website == batch[b].websites[k]
          w == HtmlWords(files[website.site_id])
      IN  website.site_id \in DOMAIN files /\ files[website.site_id].template # "" =>
            /\ 10 * website.tokens_used - 13 * w <= 5
            /\ 13 * w - 10 * website.tokens_used <= 5


\* the texts appear among the pieces in the given order
RECURSIVE InOrder(_, _)
InOrder(pieces, texts) ==
  IF texts = << >> THEN TRUE
  ELSE IF pieces = << >> THEN FALSE
  ELSE IF Head(pieces).text = Head(texts) THEN InOrder(Tail(pieces), Tail(texts))
  ELSE InOrder(Tail(pieces), texts)

\* heading and content of each section, in list order
RECURSIVE SectionTexts(_)
SectionTexts(sections) ==
  IF sections = << >> THEN << >>
  ELSE << <<Head(sections).heading>>, Head(sections).content >>
         \o SectionTexts(Tail(sections))

\* C23: rendered from any of the four template files the generator creates,
\* with any title, meta description and list of sections, the page contains
\* the title and the meta description as given, and the heading and text of
\* every section as given, section after section in the order of the list.
C23_PageHasTitleMetaAndHeadingsInOrder ==
  called.op = "_render_html" /\ TemplateFile(called.style) \in templates =>
    /\ Len(returned) = 1
    /\ LET html == returned[1].html
           text == returned[1].text
       IN  /\ \E k \in 1..Len(text) : text[k].text = html.title
           /\ \E k \in 1..Len(text) : text[k].text = html.meta_description
           /\ \A j \in 1..Len(html.sections) :
                \E k \in 1..Len(text) : text[k].text = <<html.sections[j].heading>>
           /\ InOrder(text, SectionTexts(html.sections))

\* the minimal template (its headings are listed twice) rendered with two
\* different sections and a title holding an ampersand
C23_Witness ==
  /\ called.op = "_render_html"
  /\ called.style = "minimal"
  /\ TemplateFile("minimal") \in templates
  /\ Len(returned) = 1
  /\ returned[1].html.title = <<"R", "&", "D">>
  /\ Len(returned[1].html.sections) = 2
  /\ returned[1].html.sections[1].heading = "Questions"
  /\ returned[1].html.sections[2].heading = "Introduction"
  /\ Len(returned[1].text) = 10


\* C24: a call of _ensure_templates, on its own or in a construction, leaves
\* every template file that exists as it is, creates each of the four files
\* that is absent, with the generator's text, and afterwards all four exist;
\* when all four exist it changes nothing.
C24_TemplatesCreatedOnceNeverRewritten ==
  [][ called'.op \in {"WebsiteGenerator", "_ensure_templates"} =>
        /\ \A file \in templates : file \in templates'
        /\ \A n \in 1..Len(TemplateStyles) :
             \E file \in templates' : file.name = TemplateStyles[n]
        /\ \A file \in templates' \ templates :
             /\ file = TemplateFile(file.name)
             /\ \A old \in templates : old.name # file.name
        /\ Cardinality(templates') = Len(TemplateStyles)
        /\ Cardinality(templates) = Len(TemplateStyles) => templates' = templates
    ]_vars

\* _ensure_templates ran while modern held another text and minimal was
\* absent: modern kept the other text, minimal was created
C24_Witness ==
  /\ called.op = "_ensure_templates"
  /\ [name |-> "modern", content |-> OtherTemplate] \in templates
  /\ TemplateFile("minimal") \in templates
  /\ Cardinality(templates) = Len(TemplateStyles)


\* C25: _get_random_colors returns an entry of the palette table, whose
\* entries have at least 10 pairwise different primary colours.
C25_ColorsFromPalette ==
  /\ Cardinality({ Schemes[n].primary : n \in 1..Len(Schemes) }) >= 10
  /\ called.op = "_get_random_colors" =>
       /\ Len(returned) = 1
       /\ \E n \in 1..Len(Schemes) : returned[1] = Schemes[n]

\* the last entry of the table was returned
C25_Witness ==
  /\ called.op = "_get_random_colors"
  /\ returned = << Schemes[Len(Schemes)] >>
  /\ returned[1].primary = "#360033"


\* the calls a site with n sections is made of
CallsOfSite(i, n) ==
  { [site |-> i, kind |-> "title", n |-> 0], [site |-> i, kind |-> "meta", n |-> 0] }
    \cup { [site |-> i, kind |-> "section", n |-> m] : m \in 1..n }

\* C26: no call is handed to the model twice, whether it was answered or
\* raised, and the calls made for a site that was produced are exactly one for
\* its title, one for its meta description and one for each of its sections:
\* 2 + sections_count calls.
C26_OneCallPerPiece ==
  \A b \in Generating :
    LET h == batch[b].issued
    IN  /\ \A j, k \in 1..Len(h) : j # k => h[j] # h[k]
        /\ \A k \in 1..Len(batch[b].websites) :
             LET calls == { j \in 1..Len(h) : h[j].site = k - 1 }
             IN  /\ Cardinality(calls) = 2 + batch[b].websites[k].sections_count
                 /\ { h[j] : j \in calls }
                      = CallsOfSite(k - 1, batch[b].websites[k].sections_count)

\* a site of five sections was produced with seven calls, its title call and
\* its last section call having raised
C26_Witness ==
  \E b \in Generating :
    /\ Len(batch[b].websites) = 1
    /\ batch[b].websites[1].sections_count = 5
    /\ batch[b].websites[1].title = TitleFallback
    /\ files[batch[b].websites[1].site_id].sections[5].content = SectionFallback
    /\ Len(batch[b].issued) = 7


\* the batch rows that list a site id
RowsListing(id) ==
  { n \in 1..Len(logs) :
      \E k \in 1..Len(logs[n].site_ids) : logs[n].site_ids[k] = ToString(id) }

\* C27 (as claimed): when a generate request has finished, with an answer or
\* with an error, each site file it wrote is listed in exactly one batch row.
C27_WrittenFilesAreLogged ==
  \A b \in Generating :
    batch[b].pc = "done" =>
      \A k \in 1..Len(batch[b].websites) :
        batch[b].websites[k].site_id \in DOMAIN files =>
          Cardinality(RowsListing(batch[b].websites[k].site_id)) = 1

=============================================================================
